---- MODULE Spec2Model ----
(***************************************************************************)
(* Money Balancer backend: the record store (expenses, debts, the          *)
(* limit-settings singleton), the CRUD handlers of src/server.py and the   *)
(* summary / budget-warning computation of get_summary.                    *)
(*                                                                         *)
(* Representation.                                                         *)
(*  - A Python str that the code compares with <, >= is a sequence of      *)
(*    character codes (ASCII); "-" is 45, "/" is 47, "0".."9" are 48..57.   *)
(*    Strings that are only compared for equality (status, debt_type,      *)
(*    names) are TLA+ strings.                                             *)
(*  - A stored document is a record; a key the document lacks is a field   *)
(*    the record lacks, so dict.get(key, default) is a DOMAIN test.        *)
(*  - Amounts and limits are integers (whole currency units). For integer  *)
(*    operands of this size the float sum, difference and the comparisons  *)
(*    of (spent / limit) * 100 with 80 and 100 agree with exact arithmetic.*)
(*  - now is the UTC calendar date of datetime.now(timezone.utc); the time *)
(*    of day is dropped by strftime("%Y-%m-%d") and is not modelled.       *)
(*  - A handler that awaits the store once is one step. A handler that     *)
(*    awaits it more than once (get_summary, register) is cut at its       *)
(*    awaits, and so is the upsert of create_or_update_limit where two of  *)
(*    them overlap: requests holds, for each client, the await its         *)
(*    coroutine is suspended at and the coroutine's local variables.       *)
(*  - response is the last response sent; window holds the boundaries of   *)
(*    the get_summary request that arrived last, until another request is  *)
(*    served or the day changes.                                           *)
(*  - users is the users collection of src/backend/auth.py; indexes is the *)
(*    set of collections that have a unique index on "id".                 *)
(***************************************************************************)
EXTENDS Integers, Sequences, FiniteSets, TLC

VARIABLES now, expenses, debts, limits, response, window,
          users, indexes, requests

vars == <<now, expenses, debts, limits, response, window,
          users, indexes, requests>>

----------------------------------------------------------------------------
(* Bounds *)

\* number of documents the expenses collection may hold
MaxExpenses == 2
\* number of documents the debts collection may hold
MaxDebts == 2
\* number of days the clock may advance past FirstDay
MaxTicks == 1
\* number of days past FirstSpanDay covered by the date-window specification
SpanDays == 800

----------------------------------------------------------------------------
(* Python str comparison: lexicographic by code point, a proper prefix is  *)
(* smaller.                                                                *)

MinOf(S) == CHOOSE x \in S : \A y \in S : x <= y

str_lt(a, b) ==
    LET n == IF Len(a) < Len(b) THEN Len(a) ELSE Len(b)
        diff == {i \in 1..n : a[i] # b[i]}
    IN  IF diff = {} THEN Len(a) < Len(b)
        ELSE a[MinOf(diff)] < b[MinOf(diff)]

str_ge(a, b) == ~str_lt(a, b)

----------------------------------------------------------------------------
(* The proleptic Gregorian calendar of Python's datetime: date ordinals,   *)
(* weekday(), subtraction of timedelta(days=n), replace(day=1), strftime.  *)

is_leap(y) == y % 4 = 0 /\ (y % 100 # 0 \/ y % 400 = 0)

days_in_month(y, m) ==
    IF m = 2 THEN (IF is_leap(y) THEN 29 ELSE 28)
    ELSE IF m \in {4, 6, 9, 11} THEN 30 ELSE 31

days_before_year(y) ==
    (y - 1) * 365 + ((y - 1) \div 4) - ((y - 1) \div 100) + ((y - 1) \div 400)

RECURSIVE days_before_month(_, _)
days_before_month(y, m) ==
    IF m = 1 THEN 0 ELSE days_before_month(y, m - 1) + days_in_month(y, m - 1)

\* date.toordinal(): 0001-01-01 is day 1
toordinal(d) == days_before_year(d.year) + days_before_month(d.year, d.month) + d.day

\* date.fromordinal(n), by search over the years and months around n
fromordinal(n) ==
    LET y == CHOOSE yy \in ((n \div 366) - 1)..((n \div 365) + 1) :
                 days_before_year(yy) < n /\ n <= days_before_year(yy + 1)
        r == n - days_before_year(y)
        m == CHOOSE mm \in 1..12 :
                 days_before_month(y, mm) < r
                 /\ r <= days_before_month(y, mm) + days_in_month(y, mm)
    IN  [year |-> y, month |-> m, day |-> r - days_before_month(y, m)]

\* variant: the week numbered from Sunday = 0
weekday_sunday(d) == toordinal(d) % 7

\* datetime.weekday(): Monday = 0 ... Sunday = 6
weekday(d) == (toordinal(d) + 6) % 7

\* d - timedelta(days=n)
minus_days(d, n) == fromordinal(toordinal(d) - n)

\* d.replace(day=1)
replace_day1(d) == [d EXCEPT !.day = 1]

digit(n) == 48 + n

\* strftime("%Y-%m-%d"): four-digit year, two-digit month and day, zero padded
strftime(d) ==
    << digit((d.year \div 1000) % 10), digit((d.year \div 100) % 10),
       digit((d.year \div 10) % 10), digit(d.year % 10), 45,
       digit(d.month \div 10), digit(d.month % 10), 45,
       digit(d.day \div 10), digit(d.day % 10) >>

----------------------------------------------------------------------------
(* Request inputs and documents already in the store at startup *)

\* the clock starts on Tuesday 2024-12-31: the following days belong to a
\* week that began in the previous month and year
FirstDay == [year |-> 2024, month |-> 12, day |-> 31]

\* ExpenseCreate.amount and ExpenseCreate.date, as <<amount, date>>. The
\* amount is a float with no sign check; the date is any str: here a week
\* before FirstDay, FirstDay, the day after it, and the unpadded "2025-1-1"
ExpenseInputs ==
    { <<50, strftime(minus_days(FirstDay, 7))>>,
      <<40, strftime(FirstDay)>>,
      <<50, strftime(FirstDay)>>,
      <<-10, strftime(minus_days(FirstDay, -1))>>,
      <<40, <<50, 48, 50, 53, 45, 49, 45, 49>> >> }

\* DebtCreate.amount and DebtCreate.date, as <<amount, date>>: 50 dated a
\* week before FirstDay, 100 dated the day after it
DebtInputs == { <<50, strftime(minus_days(FirstDay, 7))>>,
                <<100, strftime(minus_days(FirstDay, -1))>> }
DebtTypes == {"gave", "owe"}
Statuses == {"pending", "paid"}

\* LimitCreate.weekly_limit / monthly_limit are floats with no sign check
\* as <<weekly_limit, monthly_limit>>
LimitInputs == { <<0, 0>>, <<50, 100>>, <<100, 50>>, <<-50, 100>>, <<100, -50>> }

\* identifiers a request may name (0 is the identifier of a startup document)
ExpenseIds == 0..MaxExpenses
DebtIds == 0..MaxDebts

\* the collections as found at startup: empty, or holding one document
\* written by an earlier version or by another client, which may lack keys
InitialStores ==
    { [expenses |-> <<>>, debts |-> <<>>, limits |-> <<>>],
      [expenses |-> (0 :> [id |-> 0, amount |-> 40]), debts |-> <<>>,
       limits |-> <<>>],
      [expenses |-> (0 :> [id |-> 0, date |-> strftime(FirstDay)]), debts |-> <<>>,
       limits |-> <<>>],
      [expenses |-> <<>>, limits |-> <<>>,
       debts |-> (0 :> [id |-> 0, name |-> "n", amount |-> 50, reason |-> "r",
                        date |-> strftime(FirstDay)])],
      [expenses |-> <<>>, limits |-> <<>>,
       debts |-> (0 :> [id |-> 0, name |-> "n", reason |-> "r",
                        date |-> strftime(FirstDay), status |-> "pending",
                        debt_type |-> "gave"])],
      [expenses |-> <<>>, debts |-> <<>>,
       limits |-> <<[id |-> "limit_settings", monthly_limit |-> 100]>>] }

----------------------------------------------------------------------------
(* The record store. The expenses and the debts collections, whose "id" is *)
(* a fresh uuid under a unique index, are functions from the ids in use to *)
(* the documents; the limits collection, written by upsert on a fixed id,  *)
(* is the sequence of its documents.                                       *)

has_key(doc, key) == key \in DOMAIN doc

\* insert_one(doc)
insert_one(coll, doc) ==
    [i \in (DOMAIN coll) \cup {doc.id} |-> IF i = doc.id THEN doc ELSE coll[i]]

\* delete_one({"id": id})
delete_one(coll, id) == [i \in (DOMAIN coll) \ {id} |-> coll[i]]

\* find({}, {"_id": 0}).to_list(length=10000): the documents, listed by id
RECURSIVE to_list(_)
to_list(coll) ==
    IF DOMAIN coll = {} THEN <<>>
    ELSE LET k == MinOf(DOMAIN coll)
         IN  <<coll[k]>> \o to_list(delete_one(coll, k))

\* variant: the update document given without "$set", so that the stored
\* document is replaced by the fields and keeps only its id
set_fields_replace(doc, fields) ==
    [k \in {"id"} \cup (DOMAIN fields) |->
        IF k \in DOMAIN fields THEN fields[k] ELSE doc[k]]

\* "$set": the keys of fields are written over those of doc, other keys kept
set_fields(doc, fields) ==
    [k \in (DOMAIN doc) \cup (DOMAIN fields) |->
        IF k \in DOMAIN fields THEN fields[k] ELSE doc[k]]

\* indexes of the documents of the limits collection with the given id
matching(coll, id) == {i \in 1..Len(coll) : coll[i].id = id}

\* find_one({"id": id}) on the limits collection: the first match
find_index(coll, id) == MinOf(matching(coll, id))

\* uuid.uuid4(): an identifier no stored document has
new_id == MinOf({i \in 1..(MaxExpenses + MaxDebts) :
                   i \notin DOMAIN expenses /\ i \notin DOMAIN debts})

\* no request has been answered since the clock last advanced
NoResponse == [route |-> "none"]
NoWindow == [computed |-> FALSE]

RECURSIVE sum(_)
sum(s) == IF s = <<>> THEN 0 ELSE Head(s) + sum(Tail(s))

amounts(docs) == [i \in 1..Len(docs) |-> docs[i].amount]

\* the collections startup_db_client gives a unique index on "id"
StartupIndexes == {"expenses", "debts", "limits"}

\* the clients whose requests may be in progress at the same time
Clients == {1, 2}

\* no handler is suspended at an await
NoRequests == [c \in Clients |-> [at |-> "idle"]]

----------------------------------------------------------------------------
(* Initial state *)

Init ==
    /\ now = FirstDay
    /\ \E st \in InitialStores :
          /\ expenses = st.expenses
          /\ debts = st.debts
          /\ limits = st.limits
    /\ response = NoResponse
    /\ window = NoWindow
    /\ users = <<>>
    /\ indexes = StartupIndexes
    /\ requests = NoRequests

\* the clock advances by one day
Tick ==
    /\ toordinal(now) < toordinal(FirstDay) + MaxTicks
    /\ now' = fromordinal(toordinal(now) + 1)
    /\ response' = NoResponse
    /\ window' = NoWindow
    /\ UNCHANGED <<expenses, debts, limits, users, indexes, requests>>

----------------------------------------------------------------------------
(* Expense routes *)

create_expense(amount, date) ==
    /\ Cardinality(DOMAIN expenses) < MaxExpenses
    /\ LET doc == [id |-> new_id, amount |-> amount, date |-> date]
       IN  /\ expenses' = insert_one(expenses, doc)
           /\ response' = [route |-> "create_expense", status |-> 200]
    /\ window' = NoWindow
    /\ UNCHANGED <<now, debts, limits, users, indexes, requests>>

\* variant: the update issued with upsert=True, so that an id that matches
\* nothing gets a record
update_expense_upsert(expense_id, amount, date) ==
    /\ IF expense_id \notin DOMAIN expenses
       THEN /\ expenses' = insert_one(expenses, [id |-> expense_id,
                                                  amount |-> amount,
                                                  date |-> date])
            /\ response' = [route |-> "update_expense", status |-> 200]
       ELSE /\ expenses' = [expenses EXCEPT ![expense_id] =
                               set_fields(@, [amount |-> amount, date |-> date])]
            /\ response' = [route |-> "update_expense", status |-> 200]
    /\ window' = NoWindow
    /\ UNCHANGED <<now, debts, limits, users, indexes, requests>>

\* find_one_and_update({"id": expense_id}, {"$set": expense_dict})
update_expense(expense_id, amount, date) ==
    /\ IF expense_id \notin DOMAIN expenses
       THEN /\ response' = [route |-> "update_expense", status |-> 404]
            /\ UNCHANGED expenses
       ELSE /\ expenses' = [expenses EXCEPT ![expense_id] =
                               set_fields(@, [amount |-> amount, date |-> date])]
            /\ response' = [route |-> "update_expense", status |-> 200]
    /\ window' = NoWindow
    /\ UNCHANGED <<now, debts, limits, users, indexes, requests>>

delete_expense(expense_id) ==
    /\ IF expense_id \notin DOMAIN expenses
       THEN /\ response' = [route |-> "delete_expense", status |-> 404]
            /\ UNCHANGED expenses
       ELSE /\ expenses' = delete_one(expenses, expense_id)
            /\ response' = [route |-> "delete_expense", status |-> 200]
    /\ window' = NoWindow
    /\ UNCHANGED <<now, debts, limits, users, indexes, requests>>

----------------------------------------------------------------------------
(* Debt routes *)

create_debt(amount, date, status, debt_type) ==
    /\ Cardinality(DOMAIN debts) < MaxDebts
    /\ LET doc == [id |-> new_id, name |-> "n", amount |-> amount, reason |-> "r",
                   date |-> date, status |-> status, debt_type |-> debt_type,
                   timestamp |-> now]
       IN  /\ debts' = insert_one(debts, doc)
           /\ response' = [route |-> "create_debt", status |-> 200]
    /\ window' = NoWindow
    /\ UNCHANGED <<now, expenses, limits, users, indexes, requests>>

\* class Debt: the keys a document must have to be returned as a Debt (id
\* and timestamp have defaults)
DebtRequired == {"name", "amount", "reason", "date", "status", "debt_type"}

\* response_model=Debt: a returned document that lacks a required key fails
\* the validation of the response, after the handler has run
debt_response(doc) ==
    [route |-> "update_debt",
     status |-> IF DebtRequired \subseteq DOMAIN doc THEN 200 ELSE 500]

\* variant: update_many with an empty filter, every debt gets the status
update_debt_many(debt_id, status) ==
    /\ IF debt_id \notin DOMAIN debts
       THEN /\ response' = [route |-> "update_debt", status |-> 404]
            /\ UNCHANGED debts
       ELSE /\ debts' = [i \in DOMAIN debts |->
                            set_fields(debts[i], [status |-> status])]
            /\ response' = debt_response(debts'[debt_id])
    /\ window' = NoWindow
    /\ UNCHANGED <<now, expenses, limits, users, indexes, requests>>

\* find_one_and_update({"id": debt_id}, {"$set": {"status": input.status}})
update_debt(debt_id, status) ==
    /\ IF debt_id \notin DOMAIN debts
       THEN /\ response' = [route |-> "update_debt", status |-> 404]
            /\ UNCHANGED debts
       ELSE /\ debts' = [debts EXCEPT ![debt_id] =
                            set_fields(@, [status |-> status])]
            /\ response' = debt_response(debts'[debt_id])
    /\ window' = NoWindow
    /\ UNCHANGED <<now, expenses, limits, users, indexes, requests>>

delete_debt(debt_id) ==
    /\ IF debt_id \notin DOMAIN debts
       THEN /\ response' = [route |-> "delete_debt", status |-> 404]
            /\ UNCHANGED debts
       ELSE /\ debts' = delete_one(debts, debt_id)
            /\ response' = [route |-> "delete_debt", status |-> 200]
    /\ window' = NoWindow
    /\ UNCHANGED <<now, expenses, limits, users, indexes, requests>>

----------------------------------------------------------------------------
(* Limit routes *)

\* update_one({"id": "limit_settings"}, {"$set": doc}, upsert=True)
create_or_update_limit(weekly_limit, monthly_limit) ==
    /\ LET doc == [id |-> "limit_settings", weekly_limit |-> weekly_limit,
                   monthly_limit |-> monthly_limit]
       IN  /\ limits' = IF matching(limits, "limit_settings") = {}
                        THEN Append(limits, doc)
                        ELSE [limits EXCEPT ![find_index(limits, "limit_settings")]
                                 = set_fields(@, doc)]
           /\ response' = [route |-> "create_or_update_limit", status |-> 200]
    /\ window' = NoWindow
    /\ UNCHANGED <<now, expenses, debts, users, indexes, requests>>

----------------------------------------------------------------------------
(* Summary route *)

today_date(n) == strftime(n)

\* variant: the weekday index added instead of subtracted
week_start_date_added(n) == strftime(minus_days(n, -weekday(n)))

\* (now - timedelta(days=now.weekday())).strftime("%Y-%m-%d")
week_start_date(n) == strftime(minus_days(n, weekday(n)))

\* variant: replace(day=1) left out
month_start_date_now(n) == strftime(n)

\* now.replace(day=1).strftime("%Y-%m-%d")
month_start_date(n) == strftime(replace_day1(n))

\* variant: the day filter taken from-boundary, as the week and month are
in_today_from(e, today) ==
    str_ge(IF has_key(e, "date") THEN e.date ELSE <<>>, today)

\* e.get("date") == today_date: a document without the key yields None
in_today(e, today) == has_key(e, "date") /\ e.date = today

\* variant: > in place of >=, the first day of the week left out
in_week_strict(e, week_start) ==
    str_lt(week_start, IF has_key(e, "date") THEN e.date ELSE <<>>)

\* e.get("date", "") >= week_start_date
in_week(e, week_start) ==
    str_ge(IF has_key(e, "date") THEN e.date ELSE <<>>, week_start)

\* e.get("date", "") >= month_start_date
in_month(e, month_start) ==
    str_ge(IF has_key(e, "date") THEN e.date ELSE <<>>, month_start)

\* variant: the status is not looked at
is_gave_any_status(d) == has_key(d, "debt_type") /\ d.debt_type = "gave"

\* d.get("debt_type") == "gave" and d.get("status") == "pending"
is_gave(d) ==
    /\ has_key(d, "debt_type") /\ d.debt_type = "gave"
    /\ has_key(d, "status") /\ d.status = "pending"

\* d.get("debt_type") == "owe" and d.get("status") == "pending"
is_owe(d) ==
    /\ has_key(d, "debt_type") /\ d.debt_type = "owe"
    /\ has_key(d, "status") /\ d.status = "pending"

pending_gave(all_debts) == SelectSeq(all_debts, LAMBDA d : is_gave(d))
pending_owe(all_debts) == SelectSeq(all_debts, LAMBDA d : is_owe(d))

\* variant: the tiers exclusive at 80 and 100
weekly_warning_excl(total_week, weekly_limit) ==
    IF weekly_limit > 0
    THEN LET weekly_percent == (total_week * 100) \div weekly_limit
         IN  IF total_week * 100 > 100 * weekly_limit THEN "red"
             ELSE IF total_week * 100 > 80 * weekly_limit THEN "yellow" ELSE "none"
    ELSE "none"

\* the percentage compared with 100 and 80; it is kept as the floor of
\* (total / limit) * 100, which compares with an integer as the quotient does
weekly_warning(total_week, weekly_limit) ==
    IF weekly_limit > 0
    THEN LET weekly_percent == (total_week * 100) \div weekly_limit
         IN  IF weekly_percent >= 100 THEN "red"
             ELSE IF weekly_percent >= 80 THEN "yellow" ELSE "none"
    ELSE "none"

monthly_warning(total_month, monthly_limit) ==
    IF monthly_limit > 0
    THEN LET monthly_percent == (total_month * 100) \div monthly_limit
         IN  IF monthly_percent >= 100 THEN "red"
             ELSE IF monthly_percent >= 80 THEN "yellow" ELSE "none"
    ELSE "none"

\* variant: a default budget of 100 when no settings document is found
limit_value_default(key) ==
    IF matching(limits, "limit_settings") = {} THEN 100
    ELSE LET limit == limits[find_index(limits, "limit_settings")]
         IN  IF has_key(limit, key) THEN limit[key] ELSE 0

\* limit.get(key, 0), and 0 when find_one returned no document
limit_value(key) ==
    IF matching(limits, "limit_settings") = {} THEN 0
    ELSE LET limit == limits[find_index(limits, "limit_settings")]
         IN  IF has_key(limit, key) THEN limit[key] ELSE 0

\* variant: the remainder clamped at zero
remaining_clamped(limit, total) == IF limit - total < 0 THEN 0 ELSE limit - total

\* weekly_limit - total_week, monthly_limit - total_month
remaining(limit, total) == limit - total

\* the boundaries get_summary derives from now
summary_window(n) ==
    [computed |-> TRUE, today_date |-> today_date(n),
     week_start_date |-> week_start_date(n),
     month_start_date |-> month_start_date(n)]

\* the three totals of a list of expenses; e["amount"] of a selected
\* document without the key raises KeyError
expense_totals(all_expenses, n) ==
    LET of_today == SelectSeq(all_expenses,
                              LAMBDA e : in_today(e, today_date(n)))
        of_week == SelectSeq(all_expenses,
                             LAMBDA e : in_week(e, week_start_date(n)))
        of_month == SelectSeq(all_expenses,
                              LAMBDA e : in_month(e, month_start_date(n)))
    IN  IF \E sel \in {of_today, of_week, of_month} :
              \E i \in 1..Len(sel) : ~has_key(sel[i], "amount")
        THEN [key_error |-> TRUE]
        ELSE [key_error |-> FALSE,
              total_today |-> sum(amounts(of_today)),
              total_week |-> sum(amounts(of_week)),
              total_month |-> sum(amounts(of_month))]

\* the two sums of a list of debts, with the same KeyError
debt_sums(all_debts) ==
    LET gave == pending_gave(all_debts)
        owe == pending_owe(all_debts)
    IN  IF \E sel \in {gave, owe} :
              \E i \in 1..Len(sel) : ~has_key(sel[i], "amount")
        THEN [key_error |-> TRUE]
        ELSE [key_error |-> FALSE,
              money_gave |-> sum(amounts(gave)),
              money_owe |-> sum(amounts(owe))]

\* the answer of get_summary to what it read
summary_response(totals, weekly_limit, monthly_limit, owed) ==
    IF totals.key_error \/ owed.key_error
    THEN [route |-> "get_summary", status |-> 500]
    ELSE [route |-> "get_summary", status |-> 200,
          body |->
            [total_today |-> totals.total_today,
             total_week |-> totals.total_week,
             total_month |-> totals.total_month,
             weekly_limit |-> weekly_limit,
             monthly_limit |-> monthly_limit,
             remaining_week |-> remaining(weekly_limit, totals.total_week),
             remaining_month |-> remaining(monthly_limit, totals.total_month),
             money_gave |-> owed.money_gave,
             money_owe |-> owed.money_owe,
             weekly_warning |->
                weekly_warning(totals.total_week, weekly_limit),
             monthly_warning |->
                monthly_warning(totals.total_month, monthly_limit)]]

(* get_summary awaits the store three times, at find (expenses), find_one  *)
(* (limits) and find (debts), and any other request may be served while it *)
(* is suspended there, so the handler is the four steps between its        *)
(* awaits. A find that the store cannot answer raises in the handler,      *)
(* which has no try/except, so that the request ends with a server error.  *)
(* A request in progress carries what the handler holds in its local       *)
(* variables and still needs: now up to the query on the expenses, then    *)
(* the totals, then the totals and the two limits.                         *)

\* the client that asks for summaries and for lists
Reader == MinOf(Clients)

\* variant: the exception of the awaited call is caught and the empty
\* result stands in for what could not be read
read_failed_defaulted(c, call) ==
    LET nothing == [key_error |-> FALSE, total_today |-> 0, total_week |-> 0,
                    total_month |-> 0]
        no_debts == [key_error |-> FALSE, money_gave |-> 0, money_owe |-> 0]
    IN  IF call = "find_debts"
        THEN /\ requests' = [requests EXCEPT ![c] = [at |-> "idle"]]
             /\ response' = summary_response(requests[c].totals,
                                             requests[c].weekly_limit,
                                             requests[c].monthly_limit,
                                             no_debts)
        ELSE /\ requests' = [requests EXCEPT ![c] =
                   IF call = "find_expenses"
                   THEN [at |-> "find_limit", totals |-> nothing]
                   ELSE [at |-> "find_debts", totals |-> requests[c].totals,
                         weekly_limit |-> 0, monthly_limit |-> 0]]
             /\ UNCHANGED response

\* the awaited call raised and nothing catches it
read_failed(c, call) ==
    /\ requests' = [requests EXCEPT ![c] = [at |-> "idle"]]
    /\ response' = [route |-> "get_summary", status |-> 500]

\* variant: the settings are fetched get-or-create on arrival, a record of
\* zero limits being stored when none is found
get_summary_begin_get_or_create(c) ==
    /\ requests[c].at = "idle"
    /\ requests' = [requests EXCEPT ![c] =
                       [at |-> "find_expenses", now |-> now]]
    /\ window' = summary_window(now)
    /\ limits' = IF matching(limits, "limit_settings") = {}
                 THEN Append(limits, [id |-> "limit_settings",
                                      weekly_limit |-> 0, monthly_limit |-> 0])
                 ELSE limits
    /\ UNCHANGED <<now, expenses, debts, response, users, indexes>>

\* now = datetime.now(timezone.utc) and the three boundaries, up to the
\* first await
get_summary_begin(c) ==
    /\ requests[c].at = "idle"
    /\ requests' = [requests EXCEPT ![c] =
                       [at |-> "find_expenses", now |-> now]]
    /\ window' = summary_window(now)
    /\ UNCHANGED <<now, expenses, debts, limits, response, users, indexes>>

\* all_expenses = await db.expenses.find(...).to_list(...), then the totals
get_summary_find_expenses(c) ==
    /\ requests[c].at = "find_expenses"
    /\ \/ LET totals == expense_totals(to_list(expenses), requests[c].now)
          IN  IF totals.key_error
              THEN /\ requests' = [requests EXCEPT ![c] = [at |-> "idle"]]
                   /\ response' = [route |-> "get_summary", status |-> 500]
              ELSE /\ requests' = [requests EXCEPT ![c] =
                                      [at |-> "find_limit", totals |-> totals]]
                   /\ UNCHANGED response
       \/ read_failed(c, "find_expenses")
    /\ UNCHANGED <<now, expenses, debts, limits, window, users, indexes>>

\* variant: the month's total taken from a query of its own, issued when
\* the settings are fetched
get_summary_find_limit_requery(c) ==
    /\ requests[c].at = "find_limit"
    /\ \/ LET again == expense_totals(to_list(expenses), now)
          IN  /\ ~again.key_error
              /\ requests' = [requests EXCEPT ![c] =
                    [at |-> "find_debts",
                     totals |-> [requests[c].totals EXCEPT
                                    !.total_month = again.total_month],
                     weekly_limit |-> limit_value("weekly_limit"),
                     monthly_limit |-> limit_value("monthly_limit")]]
              /\ UNCHANGED response
       \/ read_failed(c, "find_limit")
    /\ UNCHANGED <<now, expenses, debts, limits, window, users, indexes>>

\* limit = await db.limits.find_one(...), then the two limit values
get_summary_find_limit(c) ==
    /\ requests[c].at = "find_limit"
    /\ \/ /\ requests' = [requests EXCEPT ![c] =
                [at |-> "find_debts", totals |-> requests[c].totals,
                 weekly_limit |-> limit_value("weekly_limit"),
                 monthly_limit |-> limit_value("monthly_limit")]]
          /\ UNCHANGED response
       \/ read_failed(c, "find_limit")
    /\ UNCHANGED <<now, expenses, debts, limits, window, users, indexes>>

\* all_debts = await db.debts.find(...).to_list(...), then the answer
get_summary_find_debts(c) ==
    /\ requests[c].at = "find_debts"
    /\ \/ /\ requests' = [requests EXCEPT ![c] = [at |-> "idle"]]
          /\ response' = summary_response(requests[c].totals,
                                          requests[c].weekly_limit,
                                          requests[c].monthly_limit,
                                          debt_sums(to_list(debts)))
       \/ read_failed(c, "find_debts")
    /\ UNCHANGED <<now, expenses, debts, limits, window, users, indexes>>

----------------------------------------------------------------------------
(* The service. The expense and limit routes never read or write the debts *)
(* collection and the debt routes never read or write the other two; the   *)
(* summary route reads all three. The service is explored as machines that *)
(* share the summary route: Spec posts expenses while the days pass, over  *)
(* the limits and debts found at startup; BudgetSpec posts expenses and    *)
(* limits on one day, over no debts; DebtSpec issues the debt requests on  *)
(* one day, any the clock can show, over empty expenses and limits.        *)
(* CrudSpec below issues the requests that change and delete records.      *)

Next ==
    \/ Tick
    \/ \E in \in ExpenseInputs : create_expense(in[1], in[2])
    \/ get_summary_begin(Reader)
    \/ get_summary_find_expenses(Reader)
    \/ get_summary_find_limit(Reader)
    \/ get_summary_find_debts(Reader)

Spec == Init /\ [][Next]_vars

NextBudget ==
    \/ \E in \in ExpenseInputs : create_expense(in[1], in[2])
    \/ \E in \in LimitInputs : create_or_update_limit(in[1], in[2])
    \/ get_summary_begin(Reader)
    \/ get_summary_find_expenses(Reader)
    \/ get_summary_find_limit(Reader)
    \/ get_summary_find_debts(Reader)

\* the startup stores without debts
InitBudget == Init /\ debts = <<>>

BudgetSpec == InitBudget /\ [][NextBudget]_vars

NextDebts ==
    \/ \E in \in DebtInputs, st \in Statuses, t \in DebtTypes :
          create_debt(in[1], in[2], st, t)
    \/ \E id \in DebtIds, st \in Statuses : update_debt(id, st)
    \/ \E id \in DebtIds : delete_debt(id)
    \/ get_summary_begin(Reader)
    \/ get_summary_find_expenses(Reader)
    \/ get_summary_find_limit(Reader)
    \/ get_summary_find_debts(Reader)

\* the startup stores in which only the debts collection may hold
\* documents, on any day the clock can show
InitDebts ==
    /\ \E k \in 0..MaxTicks : now = fromordinal(toordinal(FirstDay) + k)
    /\ expenses = <<>>
    /\ debts \in {st.debts : st \in InitialStores}
    /\ limits = <<>>
    /\ response = NoResponse
    /\ window = NoWindow
    /\ users = <<>>
    /\ indexes = StartupIndexes
    /\ requests = NoRequests

DebtSpec == InitDebts /\ [][NextDebts]_vars

----------------------------------------------------------------------------
(* The date windows over a long run of days: the summary of a store that   *)
(* holds one expense dated near the current day, for every current day of  *)
(* a span that contains a leap day and two changes of year.                *)

FirstSpanDay == [year |-> 2023, month |-> 12, day |-> 25]

\* the expense's date, in days after the current day
DateOffsets == {-35, -7, -3, -1, 0, 1, 3, 35}

InitDates ==
    /\ \E k \in 0..SpanDays : now = fromordinal(toordinal(FirstSpanDay) + k)
    /\ \E off \in DateOffsets, a \in {-10, 40} :
          expenses = (0 :> [id |-> 0, amount |-> a,
                            date |-> strftime(minus_days(now, -off))])
    /\ debts = <<>>
    /\ limits = <<>>
    /\ response = NoResponse
    /\ window = NoWindow
    /\ users = <<>>
    /\ indexes = StartupIndexes
    /\ requests = NoRequests

NextDates ==
    \/ get_summary_begin(Reader)
    \/ get_summary_find_expenses(Reader)
    \/ get_summary_find_limit(Reader)
    \/ get_summary_find_debts(Reader)

DateSpec == InitDates /\ [][NextDates]_vars

----------------------------------------------------------------------------
(* Overlapping POST /limit requests. update_one(filter, {"$set": doc},     *)
(* upsert=True) matches and updates one document in a single step; when    *)
(* nothing matches, the insert of the new document is a later step of the  *)
(* store, and only a unique index on "id" makes the store look again:      *)
(* with the index a second insert of the same id is refused (the store     *)
(* then applies the update to the document it found, or reports a          *)
(* duplicate key), without it the document is inserted as it is.           *)
(* src/server.py asks for the index at startup and carries on without it   *)
(* when create_index raises; src/backend/server.py never asks for it.      *)

\* what startup leaves behind: create_index is called for expenses, debts
\* and limits in turn inside one try, so the indexes created are those
\* before the first call that raises
StartupOutcomes == {{}, {"expenses"}, {"expenses", "debts"}, StartupIndexes}

InitLimits ==
    /\ now = FirstDay
    /\ expenses = <<>>
    /\ debts = <<>>
    /\ limits \in {st.limits : st \in InitialStores}
    /\ response = NoResponse
    /\ window = NoWindow
    /\ users = <<>>
    /\ indexes \in StartupOutcomes
    /\ requests = NoRequests

\* a request arrives and its update_one looks for {"id": "limit_settings"}
create_or_update_limit_match(c, weekly_limit, monthly_limit) ==
    /\ requests[c].at = "idle"
    /\ LET doc == [id |-> "limit_settings", weekly_limit |-> weekly_limit,
                   monthly_limit |-> monthly_limit]
       IN  IF matching(limits, "limit_settings") = {}
           THEN /\ requests' = [requests EXCEPT ![c] =
                                   [at |-> "update_one", doc |-> doc]]
                /\ UNCHANGED <<limits, response>>
           ELSE /\ limits' = [limits EXCEPT
                                 ![find_index(limits, "limit_settings")]
                                     = set_fields(@, doc)]
                /\ response' = [route |-> "create_or_update_limit",
                                status |-> 200]
                /\ UNCHANGED requests
    /\ window' = NoWindow
    /\ UNCHANGED <<now, expenses, debts, users, indexes>>

\* the upsert that matched nothing inserts its document
create_or_update_limit_insert(c) ==
    /\ requests[c].at = "update_one"
    /\ LET doc == requests[c].doc
           refused == /\ "limits" \in indexes
                      /\ matching(limits, "limit_settings") # {}
       IN  \/ /\ ~refused
              /\ limits' = Append(limits, doc)
              /\ response' = [route |-> "create_or_update_limit",
                              status |-> 200]
           \/ /\ refused
              /\ limits' = [limits EXCEPT
                               ![find_index(limits, "limit_settings")]
                                   = set_fields(@, doc)]
              /\ response' = [route |-> "create_or_update_limit",
                              status |-> 200]
           \/ /\ refused
              /\ response' = [route |-> "create_or_update_limit",
                              status |-> 500]
              /\ UNCHANGED limits
    /\ requests' = [requests EXCEPT ![c] = [at |-> "idle"]]
    /\ window' = NoWindow
    /\ UNCHANGED <<now, expenses, debts, users, indexes>>

NextLimits ==
    \/ \E c \in Clients, l \in LimitInputs :
          create_or_update_limit_match(c, l[1], l[2])
    \/ \E c \in Clients : create_or_update_limit_insert(c)

LimitSpec == InitLimits /\ [][NextLimits]_vars

----------------------------------------------------------------------------
(* GET /summary beside POST /expenses alone: a summary in progress and the *)
(* expenses posted meanwhile.                                              *)

NextOverlap ==
    \/ \E in \in ExpenseInputs : create_expense(in[1], in[2])
    \/ get_summary_begin(Reader)
    \/ get_summary_find_expenses(Reader)
    \/ get_summary_find_limit(Reader)
    \/ get_summary_find_debts(Reader)

OverlapSpec == Init /\ [][NextOverlap]_vars

----------------------------------------------------------------------------
(* GET /expenses in the two server variants, src/server.py and             *)
(* src/backend/server.py, over the same store. A query is the record of    *)
(* its conditions on "date": none, a lower bound gte, or gte and lte. The  *)
(* store compares strings as Python does, and a document without the key   *)
(* satisfies no condition on it. Each handler reads the clock and builds   *)
(* its query, awaits find, and answers: it is the two steps around its     *)
(* await, and expenses may be posted and the day may change in between.    *)

Filters == {"none", "day", "week", "month", "year"}

str_le(a, b) == ~str_lt(b, a)

\* find(query): the documents that satisfy the query, listed by id
find(coll, query) ==
    SelectSeq(to_list(coll),
              LAMBDA d :
                 /\ has_key(query, "gte") =>
                       has_key(d, "date") /\ str_ge(d.date, query.gte)
                 /\ has_key(query, "lte") =>
                       has_key(d, "date") /\ str_le(d.date, query.lte))

\* docs.sort(key=..."date"..., reverse=True): descending, and stable, so
\* that documents of one date keep the order they had
RECURSIVE sort_by_date(_)
sort_by_date(docs) ==
    IF docs = <<>> THEN <<>>
    ELSE LET rest == sort_by_date(Tail(docs))
             before == {k \in 1..Len(rest) : str_lt(Head(docs).date, rest[k].date)}
             n == Cardinality(before)
         IN  SubSeq(rest, 1, n) \o <<Head(docs)>> \o SubSeq(rest, n + 1, Len(rest))

\* variant: the day filter given a lower bound only, as the other two are
expense_query_from(filter, n) ==
    IF filter = "day" THEN [gte |-> today_date(n)]
    ELSE IF filter = "week" THEN [gte |-> week_start_date(n)]
    ELSE IF filter = "month" THEN [gte |-> month_start_date(n)]
    ELSE [all |-> TRUE]

\* src/server.py: the query of a filter; a filter that is none of the three
\* leaves the query empty
expense_query(filter, n) ==
    IF filter = "day" THEN [gte |-> today_date(n), lte |-> today_date(n)]
    ELSE IF filter = "week" THEN [gte |-> week_start_date(n)]
    ELSE IF filter = "month" THEN [gte |-> month_start_date(n)]
    ELSE [all |-> TRUE]

\* src/backend/server.py: every known filter is a lower bound
backend_expense_query(filter, n) ==
    IF filter = "day" THEN [gte |-> strftime(n)]
    ELSE IF filter = "week" THEN [gte |-> strftime(minus_days(n, weekday(n)))]
    ELSE IF filter = "month" THEN [gte |-> strftime(replace_day1(n))]
    ELSE [all |-> TRUE]

\* src/server.py: the documents found are sorted and returned as
\* List[Expense]; one that lacks a required field fails the validation of
\* the response
expenses_answer(query) ==
    LET docs == find(expenses, query)
    IN  IF \E k \in 1..Len(docs) :
              ~has_key(docs[k], "amount") \/ ~has_key(docs[k], "date")
        THEN [status |-> 500]
        ELSE [status |-> 200, body |-> sort_by_date(docs)]

\* src/backend/server.py: x['date'] of a document without the key raises
\* KeyError, and the response is validated as well
backend_expenses_answer(query) ==
    LET docs == find(expenses, query)
    IN  IF \E k \in 1..Len(docs) : ~has_key(docs[k], "date")
        THEN [status |-> 500]
        ELSE IF \E k \in 1..Len(docs) : ~has_key(docs[k], "amount")
        THEN [status |-> 500]
        ELSE [status |-> 200, body |-> sort_by_date(docs)]

\* what the handler holds when it awaits find: the query, and now when a
\* filter was given (with no filter the clock is not read)
expenses_request(server, filter, query) ==
    IF filter = "none"
    THEN [at |-> "find", server |-> server, filter |-> filter, query |-> query]
    ELSE [at |-> "find", server |-> server, filter |-> filter, query |-> query,
          now |-> now]

\* src/server.py: now = datetime.now(timezone.utc) and the query, up to the
\* await
get_expenses_begin(c, filter) ==
    /\ requests[c].at = "idle"
    /\ requests' = [requests EXCEPT ![c] =
          expenses_request("src/server.py", filter,
                           expense_query(filter, now))]
    /\ UNCHANGED <<now, expenses, debts, limits, response, window,
                   users, indexes>>

\* src/backend/server.py: the same, with its own query
backend_get_expenses_begin(c, filter) ==
    /\ requests[c].at = "idle"
    /\ requests' = [requests EXCEPT ![c] =
          expenses_request("src/backend/server.py", filter,
                           backend_expense_query(filter, now))]
    /\ UNCHANGED <<now, expenses, debts, limits, response, window,
                   users, indexes>>

\* src/server.py: docs = await db.expenses.find(query).to_list(...), the
\* sort and the answer; a find that raises ends the request with a server
\* error
get_expenses_find(c) ==
    /\ requests[c].at = "find" /\ requests[c].server = "src/server.py"
    /\ \/ response' = [route |-> "get_expenses", server |-> requests[c].server,
                       filter |-> requests[c].filter,
                       answer |-> expenses_answer(requests[c].query)]
       \/ response' = [route |-> "get_expenses", server |-> requests[c].server,
                       filter |-> requests[c].filter,
                       answer |-> [status |-> 500]]
    /\ requests' = [requests EXCEPT ![c] = [at |-> "idle"]]
    /\ window' = NoWindow
    /\ UNCHANGED <<now, expenses, debts, limits, users, indexes>>

\* src/backend/server.py: expenses = await db.expenses.find(query)
\* .to_list(...), the sort and the answer
backend_get_expenses_find(c) ==
    /\ requests[c].at = "find" /\ requests[c].server = "src/backend/server.py"
    /\ \/ response' = [route |-> "get_expenses", server |-> requests[c].server,
                       filter |-> requests[c].filter,
                       answer |-> backend_expenses_answer(requests[c].query)]
       \/ response' = [route |-> "get_expenses", server |-> requests[c].server,
                       filter |-> requests[c].filter,
                       answer |-> [status |-> 500]]
    /\ requests' = [requests EXCEPT ![c] = [at |-> "idle"]]
    /\ window' = NoWindow
    /\ UNCHANGED <<now, expenses, debts, limits, users, indexes>>

NextLists ==
    \/ Tick
    \/ \E in \in ExpenseInputs : create_expense(in[1], in[2])
    \/ \E f \in Filters : get_expenses_begin(Reader, f)
    \/ get_expenses_find(Reader)
    \/ \E f \in Filters : backend_get_expenses_begin(Reader, f)
    \/ backend_get_expenses_find(Reader)

ListSpec == Init /\ [][NextLists]_vars

----------------------------------------------------------------------------
(* The update and delete routes of both collections side by side, with     *)
(* few enough inputs for the two collections to be explored together: an   *)
(* identifier of one collection is unknown to the other.                   *)

\* expenses dated FirstDay
CrudExpenseInputs == {in \in ExpenseInputs : in[2] = strftime(FirstDay)}

\* debts dated the day after FirstDay
CrudDebtInputs == {in \in DebtInputs : in[2] = strftime(minus_days(FirstDay, -1))}

\* the two collections together hold no more than MaxExpenses documents
CrudRoom ==
    Cardinality(DOMAIN expenses) + Cardinality(DOMAIN debts) < MaxExpenses

\* the identifiers a request may name
CrudIds == 0..MaxExpenses

NextCrud ==
    \/ \E in \in CrudExpenseInputs : CrudRoom /\ create_expense(in[1], in[2])
    \/ \E id \in CrudIds, in \in CrudExpenseInputs :
          update_expense(id, in[1], in[2])
    \/ \E id \in CrudIds : delete_expense(id)
    \/ \E in \in CrudDebtInputs :
          CrudRoom /\ create_debt(in[1], in[2], "pending", "owe")
    \/ \E id \in CrudIds, st \in Statuses : update_debt(id, st)
    \/ \E id \in CrudIds : delete_debt(id)

CrudSpec == Init /\ [][NextCrud]_vars

----------------------------------------------------------------------------
(* POST /api/auth/register of src/backend/auth.py. The handler awaits      *)
(* find_one and, if no user has the email, awaits insert_one; nothing in   *)
(* the repository creates an index on users, so the store accepts any      *)
(* document. A user document is its email, the password hash being of no   *)
(* consequence here.                                                       *)

\* UserIn.email
Emails == {"a@example.com", "b@example.com", "c@example.com"}

InitUsers ==
    /\ now = FirstDay
    /\ expenses = <<>>
    /\ debts = <<>>
    /\ limits = <<>>
    /\ response = NoResponse
    /\ window = NoWindow
    /\ users = <<>>
    /\ indexes = {}
    /\ requests = NoRequests

\* existing = await users_col.find_one({"email": user.email}), and the
\* rejection when one is found
register_find_one(c, email) ==
    /\ requests[c].at = "idle"
    /\ IF \E i \in 1..Len(users) : users[i].email = email
       THEN /\ response' = [route |-> "register", status |-> 400,
                            detail |-> "Email already registered"]
            /\ UNCHANGED requests
       ELSE /\ requests' = [requests EXCEPT ![c] =
                               [at |-> "insert_one",
                                doc |-> [email |-> email, password |-> "hashed",
                                         full_name |-> "n"]]]
            /\ UNCHANGED response
    /\ UNCHANGED <<now, expenses, debts, limits, window, users, indexes>>

\* await users_col.insert_one(doc), and the answer
register_insert_one(c) ==
    /\ requests[c].at = "insert_one"
    /\ users' = Append(users, requests[c].doc)
    /\ response' = [route |-> "register", status |-> 200,
                    email |-> requests[c].doc.email]
    /\ requests' = [requests EXCEPT ![c] = [at |-> "idle"]]
    /\ UNCHANGED <<now, expenses, debts, limits, window, indexes>>

NextUsers ==
    \/ \E c \in Clients, email \in Emails : register_find_one(c, email)
    \/ \E c \in Clients : register_insert_one(c)

RegisterSpec == InitUsers /\ [][NextUsers]_vars

----------------------------------------------------------------------------
(* Properties. The expected values are computed here by other means than   *)
(* the handlers use: sums over sets of ids, a character-by-character       *)
(* comparison, the tiers by cross-multiplication, dates parsed back from   *)
(* their text and numbered by the Julian day number.                       *)

IsSummary == response.route = "get_summary" /\ response.status = 200

\* the steps of a summary request that go on or answer: the one that has
\* read the expenses, the one that has read the settings, and the one that
\* answers with a summary
ReadsExpenses ==
    requests[Reader].at = "find_expenses" /\ requests'[Reader].at = "find_limit"
ReadsLimit ==
    requests[Reader].at = "find_limit" /\ requests'[Reader].at = "find_debts"
Answers ==
    /\ requests[Reader].at = "find_debts" /\ requests'[Reader].at = "idle"
    /\ response'.status = 200

\* the limit a settings collection gives: that of its first record, 0 when
\* there is no record or the record has no such key
StoredLimit(key) ==
    IF limits = <<>> THEN 0
    ELSE IF has_key(limits[1], key) THEN limits[1][key] ELSE 0

\* the sum of the amounts of the documents of coll whose ids are in S
RECURSIVE SumOver(_, _)
SumOver(coll, S) ==
    IF S = {} THEN 0
    ELSE LET k == CHOOSE k \in S : TRUE
         IN  coll[k].amount + SumOver(coll, S \ {k})

\* a >= b for strings, read off their first differing character
RECURSIVE LexGe(_, _)
LexGe(a, b) ==
    IF b = <<>> THEN TRUE
    ELSE IF a = <<>> THEN FALSE
    ELSE IF Head(a) # Head(b) THEN Head(a) > Head(b)
    ELSE LexGe(Tail(a), Tail(b))

\* the tier of spent against a positive limit: red from 100%, yellow from 80%
Tier(spent, limit) ==
    IF spent >= limit THEN "red"
    ELSE IF 5 * spent >= 4 * limit THEN "yellow" ELSE "none"

\* C1: every summary with a limit > 0 carries the warning of the three-tier
\* classification of (spent / limit) * 100: red at 100% and above, yellow
\* from 80% up to 100%, none below 80%, for the weekly and the monthly pair.
C1_WarningTiers ==
    IsSummary =>
        LET b == response.body
        IN  /\ b.weekly_limit > 0 =>
                 b.weekly_warning = Tier(b.total_week, b.weekly_limit)
            /\ b.monthly_limit > 0 =>
                 b.monthly_warning = Tier(b.total_month, b.monthly_limit)

\* weekly_limit = 100 with exactly 80 spent is yellow, while the same spend
\* is red against monthly_limit = 50
C1_Witness ==
    /\ IsSummary
    /\ response.body.weekly_limit = 100 /\ response.body.total_week = 80
    /\ response.body.weekly_warning = "yellow"
    /\ response.body.monthly_limit = 50 /\ response.body.monthly_warning = "red"

\* C2: a summary request that reads the settings while no LimitSettings
\* record exists takes both limits as 0 and reports them so, and in every
\* summary a limit that is absent, zero or negative gives the warning none
\* whatever was spent.
C2_NoLimitNoWarning ==
    [][ /\ (ReadsLimit /\ limits = <<>>) =>
              /\ requests'[Reader].weekly_limit = 0
              /\ requests'[Reader].monthly_limit = 0
        /\ Answers =>
              LET b == response'.body
              IN  /\ b.weekly_limit = requests[Reader].weekly_limit
                  /\ b.monthly_limit = requests[Reader].monthly_limit
                  /\ b.weekly_limit <= 0 => b.weekly_warning = "none"
                  /\ b.monthly_limit <= 0 => b.monthly_warning = "none" ]_vars

\* money was spent this week and month and no settings record exists
C2_Witness ==
    /\ IsSummary
    /\ limits = <<>>
    /\ response.body.total_week > 0 /\ response.body.total_month > 0
    /\ response.body.weekly_warning = "none"
    /\ response.body.monthly_warning = "none"

\* C3: the totals a summary request takes from the expenses it reads, and
\* then reports, are: total_today the sum of the amounts of the expenses
\* dated today, total_week of those dated week_start or later, total_month
\* of those dated month_start or later, each on its own, for the day on
\* which the request arrived.
C3_WindowTotals ==
    [][ /\ ReadsExpenses =>
              LET w == summary_window(requests[Reader].now)
                  t == requests'[Reader].totals
                  dated == {i \in DOMAIN expenses : has_key(expenses[i], "date")}
              IN  /\ t.total_today =
                       SumOver(expenses,
                               {i \in dated : expenses[i].date = w.today_date})
                  /\ t.total_week =
                       SumOver(expenses,
                               {i \in dated :
                                   LexGe(expenses[i].date, w.week_start_date)})
                  /\ t.total_month =
                       SumOver(expenses,
                               {i \in dated :
                                   LexGe(expenses[i].date, w.month_start_date)})
        /\ ReadsLimit => requests'[Reader].totals = requests[Reader].totals
        /\ Answers =>
              /\ response'.body.total_today = requests[Reader].totals.total_today
              /\ response'.body.total_week = requests[Reader].totals.total_week
              /\ response'.body.total_month = requests[Reader].totals.total_month
      ]_vars

\* an expense of today and one of seven days earlier: the earlier one is in
\* the month's total only
C3_Witness ==
    /\ IsSummary
    /\ \E i, j \in DOMAIN expenses :
          /\ has_key(expenses[i], "date") /\ expenses[i].date = strftime(now)
          /\ has_key(expenses[j], "date")
          /\ expenses[j].date = strftime(minus_days(now, 7))
          /\ response.body.total_today = expenses[i].amount
          /\ response.body.total_week = expenses[i].amount
          /\ response.body.total_month = expenses[i].amount + expenses[j].amount
          /\ expenses[j].amount > 0

\* C4: remaining_week is weekly_limit - total_week and remaining_month is
\* monthly_limit - total_month, of the values of the same summary, negative
\* when the spending exceeds the limit.
C4_Remaining ==
    IsSummary =>
        LET b == response.body
        IN  /\ b.remaining_week = b.weekly_limit - b.total_week
            /\ b.remaining_month = b.monthly_limit - b.total_month

\* the week is overspent and the month is not
C4_Witness ==
    /\ IsSummary
    /\ response.body.weekly_limit > 0
    /\ response.body.total_week > response.body.weekly_limit
    /\ response.body.remaining_week < 0
    /\ response.body.remaining_month > 0

\* the ids of the pending debts of a direction
PendingIds(ds, direction) ==
    {i \in DOMAIN ds :
        /\ has_key(ds[i], "debt_type") /\ ds[i].debt_type = direction
        /\ has_key(ds[i], "status") /\ ds[i].status = "pending"}

\* C5: money_gave is the sum of the amounts of the pending debts of
\* direction gave, money_owe of the pending debts of direction owe; paid
\* debts add nothing, and the dates of the debts and the current day play no
\* part.
C5_DebtNetting ==
    IsSummary =>
        /\ response.body.money_gave = SumOver(debts, PendingIds(debts, "gave"))
        /\ response.body.money_owe = SumOver(debts, PendingIds(debts, "owe"))

\* a pending and a paid debt of direction gave, of different dates, one of
\* them dated after the current day: only the pending one is counted
C5_Witness ==
    /\ IsSummary
    /\ \E i, j \in DOMAIN debts :
          /\ has_key(debts[i], "status") /\ debts[i].status = "pending"
          /\ has_key(debts[j], "status") /\ debts[j].status = "paid"
          /\ has_key(debts[i], "debt_type") /\ debts[i].debt_type = "gave"
          /\ has_key(debts[j], "debt_type") /\ debts[j].debt_type = "gave"
          /\ debts[i].date # debts[j].date
          /\ LexGe(debts[i].date, strftime(minus_days(now, -1)))
          /\ response.body.money_gave = debts[i].amount
          /\ response.body.money_owe = 0

\* what get_summary reports for a debts collection
reported_gave(ds) == sum(amounts(pending_gave(to_list(ds))))
reported_owe(ds) == sum(amounts(pending_owe(to_list(ds))))

AllPaid(ds) == \A i \in DOMAIN ds : has_key(ds[i], "status") /\ ds[i].status = "paid"

\* C6: a summary computed while every stored debt has the status paid
\* reports money_gave = 0 and money_owe = 0; and an update_debt that marks
\* one pending debt of direction gave as paid lowers the reported money_gave
\* by that debt's amount and leaves the reported money_owe as it was.
C6_PaidDebtsDrop ==
    /\ [](IsSummary /\ AllPaid(debts) =>
             response.body.money_gave = 0 /\ response.body.money_owe = 0)
    /\ [][\A id \in DebtIds :
             ( /\ id \in DOMAIN debts
               /\ \A i \in DOMAIN debts : has_key(debts[i], "amount")
               /\ is_gave(debts[id])
               /\ update_debt(id, "paid") )
             => /\ reported_gave(debts') = reported_gave(debts) - debts[id].amount
                /\ reported_owe(debts') = reported_owe(debts)]_vars

\* the debt of direction gave found pending at startup has been marked paid
\* by update_debt, the debt of direction owe is paid as well, and the summary
\* reports nothing outstanding
C6_Witness ==
    /\ IsSummary
    /\ Cardinality(DOMAIN debts) >= 2
    /\ AllPaid(debts)
    /\ 0 \in DOMAIN debts /\ has_key(debts[0], "debt_type")
    /\ debts[0].debt_type = "gave"
    /\ \E i \in DOMAIN debts :
          has_key(debts[i], "debt_type") /\ debts[i].debt_type = "owe"
    /\ response.body.money_gave = 0 /\ response.body.money_owe = 0

\* the number of a two- or four-digit field of a string
RECURSIVE DigitsValue(_)
DigitsValue(cs) ==
    IF cs = <<>> THEN 0
    ELSE 10 * DigitsValue(SubSeq(cs, 1, Len(cs) - 1)) + (cs[Len(cs)] - 48)

\* the text is ten characters, digits around dashes at 5 and 8, and names a
\* day of the calendar
WellFormed(str) ==
    /\ Len(str) = 10
    /\ str[5] = 45 /\ str[8] = 45
    /\ \A i \in {1, 2, 3, 4, 6, 7, 9, 10} : str[i] \in 48..57
    /\ DigitsValue(SubSeq(str, 1, 4)) >= 1
    /\ DigitsValue(SubSeq(str, 6, 7)) \in 1..12
    /\ DigitsValue(SubSeq(str, 9, 10)) >= 1
    /\ DigitsValue(SubSeq(str, 9, 10)) <=
          LET y == DigitsValue(SubSeq(str, 1, 4))
              m == DigitsValue(SubSeq(str, 6, 7))
          IN  IF m \in {4, 6, 9, 11} THEN 30
              ELSE IF m # 2 THEN 31
              ELSE IF y % 4 = 0 /\ (y % 100 # 0 \/ y % 400 = 0) THEN 29 ELSE 28

ParseDate(str) ==
    [year |-> DigitsValue(SubSeq(str, 1, 4)),
     month |-> DigitsValue(SubSeq(str, 6, 7)),
     day |-> DigitsValue(SubSeq(str, 9, 10))]

\* the Julian day number of a date; it is a multiple of 7 on Mondays
JulianDay(d) ==
    LET a == (14 - d.month) \div 12
        y == d.year + 4800 - a
        m == d.month + 12 * a - 3
    IN  d.day + ((153 * m + 2) \div 5) + 365 * y + (y \div 4) - (y \div 100)
          + (y \div 400) - 32045

\* the date of a document, "" when it has none
DateOf(e) == IF has_key(e, "date") THEN e.date ELSE <<>>

CountedToday(e) == has_key(e, "date") /\ e.date = window.today_date
CountedWeek(e) == LexGe(DateOf(e), window.week_start_date)
CountedMonth(e) == LexGe(DateOf(e), window.month_start_date)

\* the expense is dated on a day of the current calendar month
InCurrentMonth(e) ==
    /\ has_key(e, "date") /\ WellFormed(e.date)
    /\ ParseDate(e.date).year = now.year
    /\ ParseDate(e.date).month = now.month

\* C7: when every expense has a non-negative amount and a date within the
\* current calendar month, total_today <= total_week <= total_month, on
\* every current day.
C7_MonotoneTotals ==
    ( /\ IsSummary
      /\ \A i \in DOMAIN expenses :
            expenses[i].amount >= 0 /\ InCurrentMonth(expenses[i]) )
    => /\ response.body.total_today <= response.body.total_week
       /\ response.body.total_week <= response.body.total_month

\* an expense of another day of this week and of this month: it is in the
\* week's and the month's total and not in today's
C7_Witness ==
    /\ IsSummary
    /\ expenses # <<>>
    /\ \A i \in DOMAIN expenses :
          expenses[i].amount > 0 /\ InCurrentMonth(expenses[i])
    /\ response.body.total_today < response.body.total_week
    /\ response.body.total_week = response.body.total_month

\* C8 as stated: on every current day every expense counted in total_today
\* is counted in total_week and every expense counted in total_week is
\* counted in total_month, also when the week began in the previous month.
C8_Original ==
    IsSummary =>
        \A i \in DOMAIN expenses :
            /\ CountedToday(expenses[i]) => CountedWeek(expenses[i])
            /\ CountedWeek(expenses[i]) => CountedMonth(expenses[i])

\* C8 amended: on every current day every expense counted in total_today is
\* counted in total_week and in total_month; every expense counted in
\* total_week is counted in total_month when the week did not begin before
\* the first day of the month.
C8_NestedWindows ==
    IsSummary =>
        \A i \in DOMAIN expenses :
            /\ CountedToday(expenses[i]) =>
                  CountedWeek(expenses[i]) /\ CountedMonth(expenses[i])
            /\ ( /\ CountedWeek(expenses[i])
                 /\ LexGe(window.week_start_date, window.month_start_date) )
               => CountedMonth(expenses[i])

\* the week began after the first of the month, and an expense of an earlier
\* day of the week is counted in the week and in the month
C8_Witness ==
    /\ IsSummary
    /\ LexGe(window.week_start_date, window.month_start_date)
    /\ window.week_start_date # window.month_start_date
    /\ \E i \in DOMAIN expenses :
          /\ ~CountedToday(expenses[i])
          /\ CountedWeek(expenses[i]) /\ CountedMonth(expenses[i])
          /\ ~LexGe(expenses[i].date, window.today_date)

\* C9: today is the current date, week_start is the Monday on or before it,
\* the weekday index (0 to 6) days earlier, month_start is day 1 of today's
\* month and year; so week_start <= today and month_start <= today.
C9_DateWindows ==
    window.computed =>
        /\ WellFormed(window.today_date)
        /\ WellFormed(window.week_start_date)
        /\ WellFormed(window.month_start_date)
        /\ LET t == ParseDate(window.today_date)
               w == ParseDate(window.week_start_date)
               m == ParseDate(window.month_start_date)
           IN  /\ t = now
               /\ JulianDay(w) % 7 = 0
               /\ JulianDay(t) - JulianDay(w) = JulianDay(t) % 7
               /\ JulianDay(t) - JulianDay(w) \in 0..6
               /\ m = [year |-> t.year, month |-> t.month, day |-> 1]
        /\ LexGe(window.today_date, window.week_start_date)
        /\ LexGe(window.today_date, window.month_start_date)

\* a Sunday early in January: the week began six days earlier, in December
\* of the year before
C9_Witness ==
    /\ window.computed
    /\ now.month = 1
    /\ JulianDay(now) % 7 = 6
    /\ ParseDate(window.week_start_date).year = now.year - 1
    /\ ParseDate(window.week_start_date).month = 12
    /\ ParseDate(window.month_start_date) = [now EXCEPT !.day = 1]

\* C10 as stated: an expense whose date is missing or is not a well-formed
\* YYYY-MM-DD string is in none of the three totals a summary request takes
\* from the expenses it reads.
C10_Original ==
    [][ ReadsExpenses =>
          LET w == summary_window(requests[Reader].now)
              t == requests'[Reader].totals
              good == {i \in DOMAIN expenses :
                          has_key(expenses[i], "date")
                          /\ WellFormed(expenses[i].date)}
          IN  /\ t.total_today =
                   SumOver(expenses,
                           {i \in good : expenses[i].date = w.today_date})
              /\ t.total_week =
                   SumOver(expenses,
                           {i \in good :
                               LexGe(expenses[i].date, w.week_start_date)})
              /\ t.total_month =
                   SumOver(expenses,
                           {i \in good :
                               LexGe(expenses[i].date, w.month_start_date)})
      ]_vars

\* the request goes on from the read of the expenses
GoesOn ==
    /\ get_summary_find_expenses(Reader)
    /\ requests'[Reader].at = "find_limit"

\* the request is answered with a summary from the read of the debts
IsAnswered ==
    /\ get_summary_find_debts(Reader)
    /\ response'.status = 200

\* C11 as stated: a stored expense or debt without an amount, and a debt
\* without a status or a direction, does not abort a summary: whatever the
\* records, a request that is to read the expenses can go on, and one that
\* is to read the debts can be answered with a summary.
C11_Original ==
    /\ requests[Reader].at = "find_expenses" => ENABLED GoesOn
    /\ requests[Reader].at = "find_debts" => ENABLED IsAnswered

\* C12 as stated: whatever create_or_update_limit calls were made, overlapping
\* or not, the limits collection holds at most one record, with the id
\* limit_settings.
C12_Original ==
    /\ Len(limits) <= 1
    /\ \A i \in 1..Len(limits) : limits[i].id = "limit_settings"

\* the keys of a debt other than its status are as they were
SameButStatus(old, new) ==
    /\ DOMAIN new = (DOMAIN old) \cup {"status"}
    /\ \A k \in (DOMAIN old) \ {"status"} : new[k] = old[k]

\* C13: a step of update_debt changes at most one debt, and of that debt the
\* status only: its direction, amount, name, reason, date, id and timestamp
\* stay as they were, and no debt is added or removed; in every step of any
\* operation a debt that stays stored keeps the direction it had.
C13_UpdateDebtFrame ==
    [][ /\ response'.route = "update_debt" =>
             /\ DOMAIN debts' = DOMAIN debts
             /\ Cardinality({i \in DOMAIN debts : debts'[i] # debts[i]}) <= 1
             /\ \A i \in DOMAIN debts :
                   debts'[i] # debts[i] => SameButStatus(debts[i], debts'[i])
        /\ \A i \in (DOMAIN debts) \cap (DOMAIN debts') :
             /\ has_key(debts'[i], "debt_type") <=> has_key(debts[i], "debt_type")
             /\ has_key(debts[i], "debt_type") =>
                   debts'[i].debt_type = debts[i].debt_type ]_vars

\* update_debt has just given a status to the debt found at startup without
\* status and direction, which still has no direction, so that the answer
\* was a server error after the change; beside it a pending debt of
\* direction owe that create_debt stamped and update_debt left alone
C13_Witness ==
    /\ response = [route |-> "update_debt", status |-> 500]
    /\ 0 \in DOMAIN debts
    /\ DOMAIN debts[0] = {"id", "name", "amount", "reason", "date", "status"}
    /\ debts[0].status = "paid"
    /\ \E j \in (DOMAIN debts) \ {0} :
          /\ has_key(debts[j], "timestamp")
          /\ debts[j].debt_type = "owe" /\ debts[j].status = "pending"

\* C14: every step of a get_summary request leaves the expenses, debts and
\* limits collections as they were (no settings record is created, nothing
\* is stored), and a summary answered after another, with no other request
\* and no change of day since the earlier one arrived, is the same.
C14_ReadOnly ==
    [][ requests'[Reader] # requests[Reader] =>
           /\ expenses' = expenses
           /\ debts' = debts
           /\ limits' = limits
           /\ (IsSummary /\ Answers) => response' = response ]_vars

\* a summary of zero limits has been answered over a store with an expense
\* that is in the month's total, and there is still no settings record
C14_Witness ==
    /\ IsSummary
    /\ limits = <<>>
    /\ response.body.weekly_limit = 0 /\ response.body.monthly_limit = 0
    /\ response.body.total_month > 0
    /\ expenses # <<>>

\* the three totals of a collection of expenses for the boundaries w
TotalsOf(coll, w) ==
    LET dated == {i \in DOMAIN coll : has_key(coll[i], "date")}
    IN  [total_today |->
            SumOver(coll, {i \in dated : coll[i].date = w.today_date}),
         total_week |->
            SumOver(coll, {i \in dated : LexGe(coll[i].date, w.week_start_date)}),
         total_month |->
            SumOver(coll, {i \in dated : LexGe(coll[i].date, w.month_start_date)})]

\* the three totals a summary reports
ReportedTotals(b) ==
    [total_today |-> b.total_today, total_week |-> b.total_week,
     total_month |-> b.total_month]

\* the expenses inserted up to the identifier k: identifiers are given in
\* rising order, so these are the collection as it was at one moment
InsertedUpTo(k) ==
    [i \in {j \in DOMAIN expenses : j <= k} |-> expenses[i]]

\* C15: with expenses inserted while get_summary requests are in progress,
\* the three totals of every summary answered are together those of the
\* expenses as they were stored at one moment, those before an insert or
\* those after it, never today's total of one and the month's total of the
\* other.
C15_SnapshotTotals ==
    IsSummary =>
        \E k \in 0..(MaxExpenses + MaxDebts) :
            ReportedTotals(response.body) =
                TotalsOf(InsertedUpTo(k), summary_window(now))

\* a summary has been answered that reports nothing spent today while the
\* store holds its only expense, dated today: it was inserted after the
\* request had read the expenses and before it was answered
C15_Witness ==
    /\ IsSummary
    /\ Cardinality(DOMAIN expenses) = 1
    /\ response.body.total_today = 0
    /\ \E i \in DOMAIN expenses :
          has_key(expenses[i], "date") /\ expenses[i].date = strftime(now)

\* C16: a get_summary request ends at any of its three reads with a server
\* error that carries no summary, or goes on with what it has read: the
\* totals of the expenses stored (each of which has an amount), the limits
\* of the settings stored, and, answering after the third read only, the
\* sums of the debts stored; no value of a summary stands in for data that
\* was not read.
C16_NoPartialSummary ==
    [][ /\ ( /\ requests[Reader].at # "idle" /\ requests'[Reader].at = "idle"
             /\ response'.status # 200 )
           => response' = [route |-> "get_summary", status |-> 500]
        /\ ( requests[Reader].at # "idle" /\ requests'[Reader].at = "idle"
             /\ response'.status = 200 )
           => requests[Reader].at = "find_debts"
        /\ ( /\ ReadsExpenses
             /\ \A i \in DOMAIN expenses : has_key(expenses[i], "amount") )
           => ReportedTotals(requests'[Reader].totals) =
                 TotalsOf(expenses, summary_window(requests[Reader].now))
        /\ ReadsLimit =>
              /\ requests'[Reader].weekly_limit = StoredLimit("weekly_limit")
              /\ requests'[Reader].monthly_limit = StoredLimit("monthly_limit")
        /\ Answers =>
              /\ ReportedTotals(response'.body) =
                    ReportedTotals(requests[Reader].totals)
              /\ response'.body.weekly_limit = requests[Reader].weekly_limit
              /\ response'.body.monthly_limit = requests[Reader].monthly_limit
              /\ response'.body.money_gave =
                    SumOver(debts, PendingIds(debts, "gave"))
              /\ response'.body.money_owe =
                    SumOver(debts, PendingIds(debts, "owe")) ]_vars

\* a request has ended with a server error over a store whose records are
\* all complete, which holds expenses and a settings record: one of its
\* reads failed
C16_Witness ==
    /\ response = [route |-> "get_summary", status |-> 500]
    /\ requests[Reader].at = "idle"
    /\ Cardinality(DOMAIN expenses) = MaxExpenses
    /\ \A i \in DOMAIN expenses :
          has_key(expenses[i], "amount") /\ has_key(expenses[i], "date")
    /\ \A i \in DOMAIN debts : has_key(debts[i], "amount")

\* the day number of the date of an expense
DayOf(e) == JulianDay(ParseDate(e.date))

\* every stored expense has a well-formed date
AllDated ==
    \A i \in DOMAIN expenses :
        has_key(expenses[i], "date") /\ WellFormed(expenses[i].date)

\* C17 as stated: total_week sums only the expenses dated from week_start to
\* week_start + 6 days, and total_month only the expenses dated within the
\* current calendar month.
C17_Original ==
    (IsSummary /\ AllDated) =>
        LET first == JulianDay(ParseDate(window.week_start_date))
        IN  /\ response.body.total_week =
                 SumOver(expenses,
                         {i \in DOMAIN expenses :
                             DayOf(expenses[i]) \in first..(first + 6)})
            /\ response.body.total_month =
                 SumOver(expenses,
                         {i \in DOMAIN expenses : InCurrentMonth(expenses[i])})

\* C17 amended: total_week sums every expense dated on week_start or on any
\* later day, and total_month every expense dated on month_start or on any
\* later day, with no last day: an expense dated after the end of the
\* current week is counted in total_week and one dated after the end of the
\* current month in total_month; only total_today is held to one day.
C17_FromBoundary ==
    (IsSummary /\ AllDated) =>
        /\ response.body.total_today =
             SumOver(expenses,
                     {i \in DOMAIN expenses :
                         DayOf(expenses[i]) = JulianDay(now)})
        /\ response.body.total_week =
             SumOver(expenses,
                     {i \in DOMAIN expenses :
                         DayOf(expenses[i]) >=
                            JulianDay(ParseDate(window.week_start_date))})
        /\ response.body.total_month =
             SumOver(expenses,
                     {i \in DOMAIN expenses :
                         DayOf(expenses[i]) >= JulianDay([now EXCEPT !.day = 1])})

\* an expense dated 35 days after the current day, past the end of the week
\* and of the month, is in the week's and the month's total and not in
\* today's
C17_Witness ==
    /\ IsSummary /\ AllDated
    /\ \E i \in DOMAIN expenses :
          /\ DayOf(expenses[i]) = JulianDay(now) + 35
          /\ ~InCurrentMonth(expenses[i])
          /\ expenses[i].amount > 0
          /\ response.body.total_week = expenses[i].amount
          /\ response.body.total_month = expenses[i].amount
          /\ response.body.total_today = 0

\* every stored expense is a complete record
AllComplete ==
    \A i \in DOMAIN expenses :
        has_key(expenses[i], "amount") /\ has_key(expenses[i], "date")

\* the ids of the expenses dated on the day, and of those dated on the day
\* or later
DatedOn(day) == {i \in DOMAIN expenses :
                    has_key(expenses[i], "date") /\ expenses[i].date = strftime(day)}
DatedFrom(day) == {i \in DOMAIN expenses :
                      has_key(expenses[i], "date")
                      /\ LexGe(expenses[i].date, strftime(day))}

\* the ids of the documents of a list, which has each of them once
ListedIds(docs) == {docs[k].id : k \in 1..Len(docs)}
Lists(docs, ids) == ListedIds(docs) = ids /\ Len(docs) = Cardinality(ids)

\* a GET /expenses?filter=day is answered from the store
ListsDay ==
    /\ requests[Reader].at = "find" /\ requests'[Reader].at = "idle"
    /\ requests[Reader].filter = "day"
    /\ response'.answer.status = 200

\* C18: over a store of complete expense records, a GET /expenses?filter=day
\* that is answered from the store lists, at src/server.py, exactly the
\* expenses dated on the day of the request, and at src/backend/server.py
\* exactly the expenses dated on that day or later, today being the day on
\* which the request arrived; and for the same store and day the answers of
\* the two variants differ exactly when some expense is dated after that
\* day.
C18_DayFilterVariants ==
    [][ (ListsDay /\ AllComplete) =>
          LET day == requests[Reader].now
              differ == DatedFrom(day) # DatedOn(day)
          IN  /\ response'.server = "src/server.py" =>
                    /\ Lists(response'.answer.body, DatedOn(day))
                    /\ (response'.answer #
                          backend_expenses_answer(
                              backend_expense_query("day", day)))
                          <=> differ
              /\ response'.server = "src/backend/server.py" =>
                    /\ Lists(response'.answer.body, DatedFrom(day))
                    /\ (response'.answer #
                          expenses_answer(expense_query("day", day)))
                          <=> differ ]_vars

\* src/server.py has answered the day filter with the one expense of the day
\* before, on which the request arrived, while another expense is dated
\* today, which the other variant lists first for the same day
C18_Witness ==
    /\ response.route = "get_expenses" /\ response.filter = "day"
    /\ response.server = "src/server.py"
    /\ AllComplete
    /\ response.answer.status = 200
    /\ Len(response.answer.body) = 1
    /\ response.answer.body[1].date = strftime(minus_days(now, 1))
    /\ \E i \in DOMAIN expenses : expenses[i].date = strftime(now)
    /\ LET other == backend_expenses_answer(
                        backend_expense_query("day", minus_days(now, 1)))
       IN  /\ Len(other.body) = 2
           /\ other.body[2] = response.answer.body[1]
           /\ other.body[1].date = strftime(now)

\* the documents of coll other than id are as they were
OthersKept(coll, after, id) ==
    /\ (DOMAIN coll) \ {id} \subseteq DOMAIN after
    /\ (DOMAIN after) \ {id} \subseteq DOMAIN coll
    /\ \A i \in (DOMAIN coll) \ {id} : after[i] = coll[i]

\* the answer of a route that found nothing, with all collections kept
NotFound(route) ==
    /\ response' = [route |-> route, status |-> 404]
    /\ expenses' = expenses /\ debts' = debts /\ limits' = limits

\* C19: update_expense, delete_expense, update_debt and delete_debt answer
\* 404 and leave every collection as it was when no stored record of their
\* collection has the identifier; when one has, they never answer 404,
\* change or remove that record only, and leave the other collections
\* alone (update_debt answers 200 when the debt it changed is complete and
\* a server error after the change when it is not).
C19_UnknownIds ==
    [][ /\ response'.route = "update_expense" =>
             \A id \in CrudIds, in \in CrudExpenseInputs :
                update_expense(id, in[1], in[2]) =>
                   IF id \notin DOMAIN expenses THEN NotFound("update_expense")
                   ELSE /\ response'.status = 200
                        /\ id \in DOMAIN expenses' /\ expenses'[id].id = id
                        /\ OthersKept(expenses, expenses', id)
                        /\ debts' = debts /\ limits' = limits
        /\ response'.route = "delete_expense" =>
             \A id \in CrudIds :
                delete_expense(id) =>
                   IF id \notin DOMAIN expenses THEN NotFound("delete_expense")
                   ELSE /\ response'.status = 200
                        /\ id \notin DOMAIN expenses'
                        /\ OthersKept(expenses, expenses', id)
                        /\ debts' = debts /\ limits' = limits
        /\ response'.route = "update_debt" =>
             \A id \in CrudIds, st \in Statuses :
                update_debt(id, st) =>
                   IF id \notin DOMAIN debts THEN NotFound("update_debt")
                   ELSE /\ response'.status =
                              IF \A k \in {"name", "amount", "reason", "date",
                                           "debt_type"} : has_key(debts[id], k)
                              THEN 200 ELSE 500
                        /\ id \in DOMAIN debts' /\ debts'[id].id = id
                        /\ OthersKept(debts, debts', id)
                        /\ expenses' = expenses /\ limits' = limits
        /\ response'.route = "delete_debt" =>
             \A id \in CrudIds :
                delete_debt(id) =>
                   IF id \notin DOMAIN debts THEN NotFound("delete_debt")
                   ELSE /\ response'.status = 200
                        /\ id \notin DOMAIN debts'
                        /\ OthersKept(debts, debts', id)
                        /\ expenses' = expenses /\ limits' = limits ]_vars

\* update_expense has just answered 404 for an identifier that only a debt
\* has, over a store that holds expenses and debts
C19_Witness ==
    /\ response = [route |-> "update_expense", status |-> 404]
    /\ expenses # <<>>
    /\ \E id \in DOMAIN debts : id \notin DOMAIN expenses

\* the users that have the email
Registered(email) == {i \in 1..Len(users) : users[i].email = email}

\* C20 as stated: whatever register calls were made, two of them for one
\* email overlapping between find_one and insert_one included, the users
\* collection holds at most one record per email, and no register call is
\* accepted for an email that is registered already.
C20_Original ==
    /\ \A email \in Emails : Cardinality(Registered(email)) <= 1
    /\ (response.route = "register" /\ response.status = 200)
          => Cardinality(Registered(response.email)) = 1

====
